---- MODULE Spec2Model ----
(***************************************************************************)
(* The Interface class of lib/interface.py: one connection to an electrum  *)
(* server.  Requests are queued in a priority queue keyed by the time of   *)
(* queuing, written to the pipe one per send_request call, remembered in   *)
(* unanswered_requests under their id, and paired with the answers that    *)
(* get_responses reads from the pipe.                                      *)
(*                                                                         *)
(* Encoding of Python values:                                              *)
(*   - a request is the args tuple <<method, params, id>>; Python indexes  *)
(*     from 0, so request[2] of the source is request[3] here;             *)
(*   - method names are written as naturals in the order Python compares   *)
(*     the strings; params are lists of naturals;                          *)
(*   - every value the pipe yields is a record with a "type" field, the    *)
(*     result of type(response); a dict has its keys as further fields;    *)
(*   - None is written None (a record) in a response slot, NoRequest (the  *)
(*     empty tuple) in a request slot and NoneId among wire ids, because   *)
(*     TLC compares only values of one shape.                              *)
(* The two coroutines send_request and get_responses run as two tasks of   *)
(* one event loop: a task is left only at an await that suspends.          *)
(***************************************************************************)
EXTENDS Integers, Sequences, FiniteSets, TLC

VARIABLES
    now,                  \* time.time()
    unsent_requests,      \* the PriorityQueue, as the sorted sequence of its items
    unanswered_requests,  \* dict: id -> request
    last_request,         \* set at construction
    last_ping,            \* set at construction
    request_time,         \* <<>> until queue_request sets the attribute, then <<t>>
    closed_remotely,
    send_pc,              \* the send task: "idle", or suspended in "get" or "send_all"
    send_item,            \* send_request's locals (prio, request), kept after the call
    send_result,          \* how the last send_request call ended
    recv_pc,              \* the receive task: "idle" or in the "reading" loop
    response,             \* get_responses' local: the value last read
    responses,            \* get_responses' local list; the returned batch once idle
    pipe_in,              \* values the pipe holds for pipe.get(), oldest first
    pipe_out,             \* records written by pipe.send_all, oldest first
    pipe_active,          \* time of the last traffic on the pipe
    queued,               \* history: number of queue_request calls so far
    delivered,            \* history: number of values the pipe has received
    sent_time,            \* history: time of the last write of a request, <<>> if none
    ping_result,          \* what the last ping_required call returned, "none" before
    ping_trues,           \* history: the times at which ping_required returned True
    pipe_closed,          \* close() has closed the pipe
    answered              \* history: number of requests returned paired with an answer

vars == <<now, unsent_requests, unanswered_requests, last_request, last_ping,
          request_time, closed_remotely, send_pc, send_item, send_result,
          recv_pc, response, responses, pipe_in, pipe_out, pipe_active,
          queued, delivered, sent_time, ping_result, ping_trues, pipe_closed,
          answered>>

\* The state of the Interface object itself.
session_vars == <<unanswered_requests, last_request, last_ping, closed_remotely>>
send_vars == <<send_pc, send_item, send_result>>
recv_vars == <<recv_pc, response, responses>>
ping_vars == <<ping_result, ping_trues>>

(***************************************************************************)
(* Bounds of the model and constants of the program                        *)
(***************************************************************************)
MaxQueued == 2
MaxMsgs == 2
MaxTime == 11
CapQueued == 102
MaxPingTime == 125

MAX_UNANSWERED == 100
TIMEOUT == 10
PING_INTERVAL == 60

Methods == {1, 2}
Params == {<<>>}
Ids == {1, 2}
TickSteps == {TIMEOUT, TIMEOUT + 1}
PingSteps == {1, PING_INTERVAL}

\* time.time() when the Interface is constructed: seconds since the epoch, far
\* more than PING_INTERVAL.  The least such time is taken; only differences of
\* times and the comparison with last_ping = 0 are ever made.
StartTime == PING_INTERVAL + 1

(***************************************************************************)
(* Python values                                                           *)
(***************************************************************************)
NoneId == -1
None == [type |-> "NoneType"]
NoRequest == <<>>
NonePair == <<NoRequest, None>>
EmptyDict == [i \in {} |-> NoRequest]
NoItem == [prio |-> 0, request |-> NoRequest, n |-> 0]

Min(a, b) == IF a < b THEN a ELSE b

\* The values one pipe.get() can yield as the k-th value: an answer (a dict with
\* an id, which may be null), a notification (a dict without id), the closed
\* sentinel None, or a value that is no dict.
PipeValues(k) ==
    {[type |-> "dict", id |-> i, result |-> k] : i \in Ids \cup {NoneId}}
        \cup {[type |-> "dict", method |-> 1, params |-> k]}
        \cup {None, [type |-> "str"]}

(***************************************************************************)
(* The priority queue: items (prio, args) in Python's tuple order          *)
(***************************************************************************)
RECURSIVE ListLess(_, _)
ListLess(p, q) ==
    IF q = <<>> THEN FALSE
    ELSE IF p = <<>> THEN TRUE
    ELSE IF Head(p) # Head(q) THEN Head(p) < Head(q)
    ELSE ListLess(Tail(p), Tail(q))

ArgsLess(a, b) ==
    \/ a[1] < b[1]
    \/ a[1] = b[1] /\ ListLess(a[2], b[2])
    \/ a[1] = b[1] /\ a[2] = b[2] /\ a[3] < b[3]

ItemLess(x, y) ==
    \/ x.prio < y.prio
    \/ x.prio = y.prio /\ ArgsLess(x.request, y.request)

\* PriorityQueue.put: the queue stays sorted; get() takes the head.
QueuePut(q, x) ==
    LET k == Cardinality({j \in 1..Len(q) : ~ItemLess(x, q[j])})
    IN  SubSeq(q, 1, k) \o <<x>> \o SubSeq(q, k + 1, Len(q))

(***************************************************************************)
(* Interface                                                               *)
(***************************************************************************)
Init ==
    /\ now = StartTime
    /\ unsent_requests = <<>>
    /\ unanswered_requests = EmptyDict
    /\ last_request = StartTime
    /\ last_ping = 0
    /\ request_time = <<>>
    /\ closed_remotely = FALSE
    /\ send_pc = "idle"
    /\ send_item = NoItem
    /\ send_result = "none"
    /\ recv_pc = "idle"
    /\ response = None
    /\ responses = <<>>
    /\ pipe_in = <<>>
    /\ pipe_out = <<>>
    /\ pipe_active = StartTime
    /\ queued = 0
    /\ delivered = 0
    /\ sent_time = <<>>
    /\ ping_result = "none"
    /\ ping_trues = <<>>
    /\ pipe_closed = FALSE
    /\ answered = 0

QueueRequest(m, p, i) ==
    /\ request_time' = <<now>>
    /\ unsent_requests' =
           QueuePut(unsent_requests,
                    [prio |-> now, request |-> <<m, p, i>>, n |-> queued + 1])
    /\ queued' = queued + 1
    /\ UNCHANGED <<now, session_vars, send_vars, recv_vars, pipe_in, pipe_out,
                   pipe_active, delivered, sent_time>>
    /\ UNCHANGED <<ping_vars, pipe_closed, answered>>

num_requests ==
    Min(MAX_UNANSWERED - Cardinality(DOMAIN unanswered_requests),
        Len(unsent_requests))

make_dict(m, p, i) == [method |-> m, params |-> p, id |-> i]

\* a fresh dict holding the one entry
DictSet_Only(d, k, v) == [i \in {k} |-> v]

DictSet(d, k, v) == [i \in DOMAIN d \cup {k} |-> IF i = k THEN v ELSE d[i]]

\* send_request called with the unsent queue empty: n is computed and not used,
\* and the call is suspended in unsent_requests.get() until an item is put.
SendRequestCall ==
    /\ send_pc = "idle"
    /\ unsent_requests = <<>>
    /\ send_pc' = "get"
    /\ UNCHANGED <<now, unsent_requests, session_vars, request_time, send_item,
                   send_result, recv_vars, pipe_in, pipe_out, pipe_active,
                   queued, delivered, sent_time>>
    /\ UNCHANGED <<ping_vars, pipe_closed, answered>>

\* send_request up to its suspension in pipe.send_all: n is computed and not
\* used, the head of the queue is taken (at once, or when the call suspended in
\* get() is resumed) and written.
SendRequestWrite ==
    /\ send_pc \in {"idle", "get"}
    /\ unsent_requests # <<>>
    /\ LET item == Head(unsent_requests)
       IN  /\ send_item' = item
           /\ pipe_out' = Append(pipe_out,
                  [dict |-> make_dict(item.request[1], item.request[2],
                                      item.request[3]),
                   n |-> item.n])
    /\ unsent_requests' = Tail(unsent_requests)
    /\ send_pc' = "send_all"
    /\ pipe_active' = now
    /\ sent_time' = <<now>>
    /\ UNCHANGED <<now, session_vars, request_time, send_result, recv_vars,
                   pipe_in, queued, delivered>>
    /\ UNCHANGED <<ping_vars, pipe_closed, answered>>

\* send_all returned: the request is recorded under its id.
SendRequestReturn ==
    /\ send_pc = "send_all"
    /\ unanswered_requests' =
           DictSet(unanswered_requests, send_item.request[3], send_item.request)
    /\ send_pc' = "idle"
    /\ send_result' = "True"
    /\ UNCHANGED <<now, unsent_requests, last_request, last_ping, request_time,
                   closed_remotely, send_item, recv_vars, pipe_in, pipe_out, pipe_active,
                   queued, delivered, sent_time>>
    /\ UNCHANGED <<ping_vars, pipe_closed, answered>>

\* send_all raised: the handler evaluates r, a name that is not bound, so the
\* put is never made and the call ends with NameError; sys.exit is not reached.
SendRequestRaise ==
    /\ send_pc \in {"idle", "get"}
    /\ unsent_requests # <<>>
    /\ send_item' = Head(unsent_requests)
    /\ unsent_requests' = Tail(unsent_requests)
    /\ send_result' = "NameError"
    /\ send_pc' = "idle"
    /\ UNCHANGED <<now, session_vars, request_time, recv_vars, pipe_in,
                   pipe_out, pipe_active, queued, delivered, sent_time>>
    /\ UNCHANGED <<ping_vars, pipe_closed, answered>>

\* >= where > was meant
PingDue_AtInterval(t, last) == t - last >= PING_INTERVAL

\* now - self.last_ping > 60
PingDue(t, last) == t - last > PING_INTERVAL

ping_required ==
    /\ IF PingDue(now, last_ping)
       THEN /\ last_ping' = now
            /\ ping_result' = "True"
            /\ ping_trues' = Append(ping_trues, now)
       ELSE /\ last_ping' = last_ping
            /\ ping_result' = "False"
            /\ ping_trues' = ping_trues
    /\ UNCHANGED <<now, unsent_requests, unanswered_requests, last_request,
                   request_time, closed_remotely, send_vars, recv_vars, pipe_in,
                   pipe_out, pipe_active, queued, delivered, sent_time,
                   pipe_closed, answered>>

\* What pipe.close() does to the values pipe.get() yields: after those the pipe
\* holds, the closed sentinel.
PipeClosed(q) == Append(q, None)

\* close(): the pipe is closed, and nothing else is touched.
Close ==
    /\ ~pipe_closed
    /\ pipe_closed' = TRUE
    /\ pipe_in' = PipeClosed(pipe_in)
    /\ UNCHANGED <<now, unsent_requests, session_vars, request_time, send_vars,
                   recv_vars, pipe_out, pipe_active, queued, delivered,
                   sent_time, ping_vars, answered>>

idle_time == now - pipe_active

has_timed_out ==
    IF DOMAIN unanswered_requests = {} THEN "False"
    ELSE IF request_time = <<>> THEN "AttributeError"
    ELSE IF now - request_time[1] > TIMEOUT /\ idle_time > TIMEOUT THEN "True"
    ELSE "False"

is_dict(r) == r.type = "dict"

\* response.get('id', None)
wire_id(r) == IF "id" \in DOMAIN r THEN r.id ELSE NoneId

\* Variants of the definitions below, each with one plausible slip.
\* get where pop was meant: the entry stays.
PopRest_Keep(d, k) == d
\* no break after an unknown wire id
Breaks_OnlyMalformed(r, d) == r.type # "dict"
\* the break one level out: the loop ends after every value
Breaks_Always(r, d) == TRUE
\* closed_remotely set for every value that is no dict
ClosedAfter_AnyMalformed(r, closed) == IF r.type # "dict" THEN TRUE ELSE closed

\* clear where pop was meant
PopRest_Clear(d, k) == EmptyDict

\* dict.pop(k, None): the value, and the dict that is left
PopValue(d, k) == IF k \in DOMAIN d THEN d[k] ELSE NoRequest
PopRest(d, k) == [i \in DOMAIN d \ {k} |-> d[i]]

\* The pair one pass of the loop appends for the value r.
Pair(r, d) ==
    IF ~is_dict(r) THEN NonePair
    ELSE IF wire_id(r) = NoneId THEN <<NoRequest, r>>
    ELSE IF PopValue(d, wire_id(r)) # NoRequest
         THEN <<PopValue(d, wire_id(r)), r>>
         ELSE NonePair

\* a break after a notification as well
Breaks_AfterNotification(r, d) ==
    \/ ~is_dict(r)
    \/ wire_id(r) = NoneId
    \/ PopValue(d, wire_id(r)) = NoRequest

\* The passes that end the loop: a value that is no dict, an unknown wire id.
Breaks(r, d) ==
    \/ ~is_dict(r)
    \/ wire_id(r) # NoneId /\ PopValue(d, wire_id(r)) = NoRequest

ClosedAfter(r, closed) ==
    IF ~is_dict(r) /\ r = None THEN TRUE ELSE closed

\* the table emptied when an answer carries an unknown id
UnansweredAfter_ClearOnUnknown(r, d) ==
    IF is_dict(r) /\ wire_id(r) # NoneId
    THEN IF wire_id(r) \in DOMAIN d THEN PopRest(d, wire_id(r)) ELSE EmptyDict
    ELSE d

\* the table emptied when the stream has ended
UnansweredAfter_ClearOnClose(r, d) ==
    IF ~is_dict(r) THEN EmptyDict
    ELSE IF wire_id(r) # NoneId THEN PopRest(d, wire_id(r)) ELSE d

UnansweredAfter(r, d) ==
    IF is_dict(r) /\ wire_id(r) # NoneId THEN PopRest(d, wire_id(r)) ELSE d

\* insert(0, x) where append was meant
Appended_Front(list, x) == <<x>> \o list

\* list.append
Appended(list, x) == Append(list, x)

GetResponsesCall ==
    /\ recv_pc = "idle"
    /\ recv_pc' = "reading"
    /\ responses' = <<>>
    /\ UNCHANGED <<now, unsent_requests, session_vars, request_time, send_vars,
                   response, pipe_in, pipe_out, pipe_active, queued, delivered,
                   sent_time>>
    /\ UNCHANGED <<ping_vars, pipe_closed, answered>>

\* One pass of the loop, from the value pipe.get() yields to the next get() or
\* to the return of the batch.
GetResponsesRead ==
    /\ recv_pc = "reading"
    /\ pipe_in # <<>>
    /\ response' = Head(pipe_in)
    /\ pipe_in' = Tail(pipe_in)
    /\ responses' = Appended(responses, Pair(response', unanswered_requests))
    /\ answered' = IF Pair(response', unanswered_requests)[1] # NoRequest
                   THEN answered + 1 ELSE answered
    /\ unanswered_requests' = UnansweredAfter(response', unanswered_requests)
    /\ closed_remotely' = ClosedAfter(response', closed_remotely)
    /\ recv_pc' = IF Breaks(response', unanswered_requests) THEN "idle"
                  ELSE "reading"
    /\ UNCHANGED <<now, unsent_requests, last_request, last_ping, request_time,
                   send_vars, pipe_out, pipe_active, queued, delivered,
                   sent_time>>
    /\ UNCHANGED <<ping_vars, pipe_closed>>

(***************************************************************************)
(* The environment: the server and the clock                               *)
(***************************************************************************)
PipeDeliver(v) ==
    /\ pipe_in' = Append(pipe_in, v)
    /\ delivered' = delivered + 1
    /\ pipe_active' = now
    /\ UNCHANGED <<now, unsent_requests, session_vars, request_time, send_vars,
                   recv_vars, pipe_out, queued, sent_time>>
    /\ UNCHANGED <<ping_vars, pipe_closed, answered>>

Tick(d) ==
    /\ now' = now + d
    /\ UNCHANGED <<unsent_requests, session_vars, request_time, send_vars,
                   recv_vars, pipe_in, pipe_out, pipe_active, queued, delivered,
                   sent_time>>
    /\ UNCHANGED <<ping_vars, pipe_closed, answered>>

OutstandingIds ==
    {unsent_requests[j].request[3] : j \in 1..Len(unsent_requests)}
        \cup (IF send_pc = "send_all" THEN {send_item.request[3]} ELSE {})
        \cup DOMAIN unanswered_requests

Next ==
    \/ \E m \in Methods, p \in Params, i \in Ids :
           queued < MaxQueued /\ QueueRequest(m, p, i)
    \/ SendRequestWrite
    \/ SendRequestReturn
    \/ SendRequestRaise
    \/ GetResponsesCall
    \/ GetResponsesRead
    \/ \E v \in PipeValues(delivered + 1) :
           delivered < MaxMsgs /\ PipeDeliver(v)
    \/ \E d \in TickSteps : now + d <= StartTime + MaxTime /\ Tick(d)

Spec == Init /\ [][Next]_vars

\* The same program with the clock standing still: every time stamp is the
\* time of construction, so the queue orders requests by their args alone.
NextUntimed ==
    \/ \E m \in Methods, p \in Params, i \in Ids :
           queued < MaxQueued /\ QueueRequest(m, p, i)
    \/ SendRequestWrite
    \/ SendRequestReturn
    \/ SendRequestRaise
    \/ GetResponsesCall
    \/ GetResponsesRead
    \/ \E v \in PipeValues(delivered + 1) :
           delivered < MaxMsgs /\ PipeDeliver(v)

SpecUntimed == Init /\ [][NextUntimed]_vars

\* A caller that never queues an id that is outstanding (queued, being written
\* or unanswered).
NextUnique ==
    \/ \E m \in Methods, p \in Params, i \in Ids \ OutstandingIds :
           queued < MaxQueued /\ QueueRequest(m, p, i)
    \/ SendRequestWrite
    \/ SendRequestReturn
    \/ SendRequestRaise
    \/ GetResponsesCall
    \/ GetResponsesRead
    \/ \E v \in PipeValues(delivered + 1) :
           delivered < MaxMsgs /\ PipeDeliver(v)
    \/ \E d \in TickSteps : now + d <= StartTime + MaxTime /\ Tick(d)

SpecUnique == Init /\ [][NextUnique]_vars

\* A caller that numbers its requests 1, 2, 3, ... and sends each of them, with
\* a server that has not answered yet and writes that all succeed.
NextCap ==
    \/ queued < CapQueued /\ QueueRequest(1, <<>>, queued + 1)
    \/ SendRequestWrite
    \/ SendRequestReturn

SpecCap == Init /\ [][NextCap]_vars

\* The liveness monitor alone: ping_required and the clock.
NextPing ==
    \/ ping_required
    \/ \E d \in PingSteps : now + d <= StartTime + MaxPingTime /\ Tick(d)

SpecPing == Init /\ [][NextPing]_vars

\* The session with close(): a caller that makes no new send_request or
\* get_responses call on a session it has closed, and a closed pipe that
\* receives nothing more.
NextClose ==
    \/ \E m \in Methods, p \in Params, i \in Ids :
           queued < MaxQueued /\ QueueRequest(m, p, i)
    \/ ~pipe_closed /\ send_pc = "idle" /\ SendRequestCall
    \/ ~pipe_closed /\ send_pc = "idle" /\ SendRequestWrite
    \/ send_pc = "get" /\ SendRequestWrite
    \/ SendRequestReturn
    \/ SendRequestRaise
    \/ ~pipe_closed /\ GetResponsesCall
    \/ GetResponsesRead
    \/ \E v \in PipeValues(delivered + 1) :
           ~pipe_closed /\ delivered < MaxMsgs /\ PipeDeliver(v)
    \/ Close

SpecClose == Init /\ [][NextClose]_vars

\* The session with a server that sends nothing but the end of the stream, and
\* the clock running between the calls.
NextSend ==
    \/ \E m \in Methods, p \in Params, i \in Ids :
           queued < MaxQueued /\ QueueRequest(m, p, i)
    \/ SendRequestWrite
    \/ SendRequestReturn
    \/ SendRequestRaise
    \/ GetResponsesCall
    \/ GetResponsesRead
    \/ delivered < MaxMsgs /\ PipeDeliver(None)
    \/ \E d \in TickSteps : now + d <= StartTime + MaxTime /\ Tick(d)

SpecSend == Init /\ [][NextSend]_vars

\* The session with the clock standing still, a caller whose requests are all
\* of one method, and the caller's liveness check among its operations.
NextEntries ==
    \/ \E i \in Ids : queued < MaxQueued /\ QueueRequest(1, <<>>, i)
    \/ SendRequestWrite
    \/ SendRequestReturn
    \/ GetResponsesCall
    \/ GetResponsesRead
    \/ \E v \in PipeValues(delivered + 1) :
           delivered < MaxMsgs /\ PipeDeliver(v)
    \/ ping_required

SpecEntries == Init /\ [][NextEntries]_vars

\* What a call of pipe.send_all can do: return or raise. The transport's
\* contract ties neither outcome to what the pipe has yielded to get().
send_all == {"returns", "raises"}

\* A caller that makes send_request calls only once closed_remotely is set.
NextClosedRemotely ==
    \/ \E m \in Methods, p \in Params, i \in Ids :
           queued < MaxQueued /\ QueueRequest(m, p, i)
    \/ closed_remotely /\ "returns" \in send_all /\ SendRequestWrite
    \/ SendRequestReturn
    \/ closed_remotely /\ "raises" \in send_all /\ SendRequestRaise
    \/ GetResponsesCall
    \/ GetResponsesRead
    \/ \E v \in PipeValues(delivered + 1) :
           delivered < MaxMsgs /\ PipeDeliver(v)

SpecClosedRemotely == Init /\ [][NextClosedRemotely]_vars

\* A caller that never queues an id that is outstanding, a transport whose
\* writes all succeed, and the clock standing still.
NextNoLoss ==
    \/ \E m \in Methods, p \in Params, i \in Ids \ OutstandingIds :
           queued < MaxQueued /\ QueueRequest(m, p, i)
    \/ SendRequestWrite
    \/ SendRequestReturn
    \/ GetResponsesCall
    \/ GetResponsesRead
    \/ \E v \in PipeValues(delivered + 1) :
           delivered < MaxMsgs /\ PipeDeliver(v)

SpecNoLoss == Init /\ [][NextNoLoss]_vars

(***************************************************************************)
(* Properties                                                              *)
(***************************************************************************)
Last(q) == q[Len(q)]

\* A step of the receive loop: in the loop, the receive task's locals or the
\* pipe's input change and nothing was delivered.
ReadStep ==
    /\ recv_pc = "reading"
    /\ delivered' = delivered
    /\ <<recv_vars, pipe_in>>' # <<recv_vars, pipe_in>>

\* The value such a step reads.
Read == Head(pipe_in)

\* The requests written to the pipe and not yet paired with an answer.
WrittenUnanswered ==
    {unanswered_requests[i] : i \in DOMAIN unanswered_requests}
        \cup (IF send_pc = "send_all" THEN {send_item.request} ELSE {})

\* C1: whenever the receive loop reads an answer whose id is the id of a
\* request that has been written to the pipe and is not answered yet, it
\* appends the pair of exactly that request and the answer, also while
\* send_request is suspended between the write and the insertion into
\* unanswered_requests (ids unique among outstanding requests: SpecUnique).
C1_AnswerOfWrittenRequestIsMatched ==
    [][(/\ ReadStep
        /\ Read.type = "dict"
        /\ "id" \in DOMAIN Read
        /\ \E r \in WrittenUnanswered : r[3] = Read.id)
       => \E r \in WrittenUnanswered :
              /\ r[3] = Read.id
              /\ responses' = Append(responses, <<r, Read>>)]_vars

\* C2: a step of the receive loop that reads a message whose id is a key of
\* unanswered_requests appends exactly the pair (request recorded under that
\* id, message), removes that key and no other, stays in the loop, and the
\* id of the request (its third field) is the id of the answer.
C2_MatchedAnswerIsPaired ==
    [][(/\ ReadStep
        /\ Read.type = "dict"
        /\ "id" \in DOMAIN Read
        /\ Read.id \in DOMAIN unanswered_requests)
       => /\ responses' =
                 Append(responses, <<unanswered_requests[Read.id], Read>>)
          /\ unanswered_requests' =
                 [i \in DOMAIN unanswered_requests \ {Read.id} |->
                     unanswered_requests[i]]
          /\ recv_pc' = "reading"
          /\ pipe_in' = Tail(pipe_in)
          /\ unanswered_requests[Read.id][3] = Read.id]_vars

\* C2's case: the loop has just paired an answer with the request of its id,
\* while another request is still unanswered, and goes on reading.
C2_Witness ==
    /\ recv_pc = "reading"
    /\ responses # <<>>
    /\ Last(responses)[1] # NoRequest
    /\ Last(responses)[2] = response
    /\ Last(responses)[1][3] = response.id
    /\ response.id \notin DOMAIN unanswered_requests
    /\ DOMAIN unanswered_requests # {}

\* C3: a step of the receive loop that reads an answer whose id is not a key
\* of unanswered_requests appends (None, None) and returns: the batch ends
\* with that pair, unanswered_requests and closed_remotely are unchanged,
\* and only the value read has left the pipe.
C3_UnknownIdEndsBatch ==
    [][(/\ ReadStep
        /\ Read.type = "dict"
        /\ "id" \in DOMAIN Read
        /\ Read.id # NoneId
        /\ Read.id \notin DOMAIN unanswered_requests)
       => /\ responses' = Append(responses, NonePair)
          /\ recv_pc' = "idle"
          /\ unanswered_requests' = unanswered_requests
          /\ closed_remotely' = closed_remotely
          /\ pipe_in' = Tail(pipe_in)]_vars

\* C3's case: get_responses has returned on an unknown wire id, with a request
\* still unanswered and a value left unread on the pipe.
C3_Witness ==
    /\ recv_pc = "idle"
    /\ response.type = "dict"
    /\ "id" \in DOMAIN response
    /\ response.id # NoneId
    /\ responses # <<>>
    /\ Last(responses) = NonePair
    /\ pipe_in # <<>>
    /\ DOMAIN unanswered_requests # {}
    /\ ~closed_remotely

\* C4: a step of the receive loop that reads a value that is no dict appends
\* (None, None) and returns; closed_remotely becomes true when the value is
\* None and keeps its value otherwise; unanswered_requests is unchanged.
C4_MalformedEndsBatch ==
    [][(ReadStep /\ Read.type # "dict")
       => /\ responses' = Append(responses, NonePair)
          /\ recv_pc' = "idle"
          /\ closed_remotely' = (IF Read = None THEN TRUE ELSE closed_remotely)
          /\ unanswered_requests' = unanswered_requests]_vars

\* C4's case: a value that is no dict and not None has ended its batch with
\* closed_remotely still false and a request still unanswered, while the
\* closed sentinel waits unread on the pipe.
C4_Witness ==
    /\ recv_pc = "idle"
    /\ response = [type |-> "str"]
    /\ responses # <<>>
    /\ Last(responses) = NonePair
    /\ ~closed_remotely
    /\ pipe_in = <<None>>
    /\ DOMAIN unanswered_requests # {}

\* C5: a step of the receive loop that reads a dict without an id (or with
\* the id null) appends (None, message), leaves unanswered_requests, the
\* unsent queue and closed_remotely unchanged, and stays in the loop.
C5_NotificationIsPassedOn ==
    [][(/\ ReadStep
        /\ Read.type = "dict"
        /\ ("id" \notin DOMAIN Read \/ Read.id = NoneId))
       => /\ responses' = Append(responses, <<NoRequest, Read>>)
          /\ unanswered_requests' = unanswered_requests
          /\ unsent_requests' = unsent_requests
          /\ closed_remotely' = closed_remotely
          /\ recv_pc' = "reading"]_vars

\* C5's case: the loop has just passed a notification on, with a request
\* unanswered and another one unsent.
C5_Witness ==
    /\ recv_pc = "reading"
    /\ response.type = "dict"
    /\ "id" \notin DOMAIN response
    /\ responses # <<>>
    /\ Last(responses) = <<NoRequest, response>>
    /\ DOMAIN unanswered_requests # {}
    /\ unsent_requests # <<>>

\* The queue_request calls (numbered in call order) whose request is in the
\* unsent queue, and those whose request has been written to the pipe.
UnsentCalls == {unsent_requests[j].n : j \in 1..Len(unsent_requests)}
WrittenCalls == {pipe_out[j].n : j \in 1..Len(pipe_out)}

\* C6: in every state at most 100 requests are unanswered, and every request
\* that was queued is still in the unsent queue or has been written.
C6_AtMost100Unanswered ==
    /\ Cardinality(DOMAIN unanswered_requests) <= 100
    /\ \A k \in 1..queued : k \in UnsentCalls \cup WrittenCalls

\* C7: in every state num_requests() is the smaller of 100 less the number of
\* unanswered requests and the size of the unsent queue, and is not negative.
C7_NumRequestsNeverNegative ==
    /\ num_requests = Min(100 - Cardinality(DOMAIN unanswered_requests),
                          Len(unsent_requests))
    /\ num_requests >= 0

\* C8: once a send_request call has ended on a failed write, either the
\* request it took is back in the unsent queue and the call returned False, or
\* the session is closed and a transport error was raised; with the session
\* open the request is in the unsent queue or in unanswered_requests.
C8_FailedWriteKeepsRequest ==
    send_result \notin {"none", "True"}
    => /\ \/ send_result = "False" /\ send_item.n \in UnsentCalls
          \/ send_result = "TransportError" /\ closed_remotely
       /\ ~closed_remotely
              => \/ send_item.n \in UnsentCalls
                 \/ \E i \in DOMAIN unanswered_requests :
                        unanswered_requests[i] = send_item.request

\* C9: has_timed_out() is true exactly when unanswered_requests is not empty,
\* more than 10 seconds have passed since the last request was written, and
\* the pipe has been idle for more than 10 seconds.
C9_TimedOutIffThreeConditions ==
    (has_timed_out = "True")
    <=> /\ DOMAIN unanswered_requests # {}
        /\ sent_time # <<>>
        /\ now - sent_time[1] > 10
        /\ idle_time > 10

\* C10: the requests are written to the pipe in the order of their
\* queue_request calls.
C10_WrittenInEnqueueOrder ==
    \A j, k \in 1..Len(pipe_out) : j < k => pipe_out[j].n < pipe_out[k].n

\* A ping_required call that is no stuttering step.
PingStep == <<last_ping, ping_vars>>' # <<last_ping, ping_vars>>

\* C11: a ping_required call returns True exactly when more than 60 seconds
\* have passed since last_ping, and then sets last_ping to the time of the
\* call; returning False it leaves last_ping as it was.  The first call on a
\* new Interface returns True, and any two True results are more than 60
\* seconds apart.
C11_PingOncePerInterval ==
    [][PingStep
       => /\ ping_result' = (IF now - last_ping > 60 THEN "True" ELSE "False")
          /\ last_ping' = (IF ping_result' = "True" THEN now ELSE last_ping)
          /\ ping_result = "none" => ping_result' = "True"
          /\ \A j, k \in 1..Len(ping_trues') :
                 j < k => ping_trues'[k] - ping_trues'[j] > 60]_vars

\* C11's case: True on the first call, True again later, and False on a call
\* made exactly 60 seconds after the second True.
C11_Witness ==
    /\ Len(ping_trues) = 2
    /\ ping_trues[1] = StartTime
    /\ ping_result = "False"
    /\ now - last_ping = 60

\* C12: once close() has been called, a task suspended in send_request on the
\* empty unsent queue, or in get_responses on the pipe, is resumed: a step of
\* that task is enabled, so that it need not wait for the caller to queue a
\* further request or for the server to send a further message.
C12_CloseResumesSuspendedTasks ==
    pipe_closed
    => /\ send_pc = "get" => ENABLED (SendRequestWrite \/ SendRequestRaise)
       /\ recv_pc = "reading" => ENABLED GetResponsesRead

\* The step in which send_request records the request it has written.
RecordStep == send_pc = "send_all" /\ send_pc' = "idle"

\* C13: no step replaces the request stored under an id that stays in
\* unanswered_requests, and a send_request call that comes to record a
\* request under an id that is the key of another request ends with a
\* duplicate-id failure and leaves unanswered_requests as it was.
C13_DuplicateIdIsRefused ==
    [][/\ \A i \in DOMAIN unanswered_requests \cap DOMAIN unanswered_requests' :
              unanswered_requests'[i] = unanswered_requests[i]
       /\ (/\ RecordStep
           /\ send_item.request[3] \in DOMAIN unanswered_requests
           /\ unanswered_requests[send_item.request[3]] # send_item.request)
              => /\ send_result' = "DuplicateId"
                 /\ unanswered_requests' = unanswered_requests]_vars


\* The step of a send_request call up to its suspension in pipe.send_all.
WriteStep == send_pc \in {"idle", "get"} /\ send_pc' = "send_all"

\* q without its k-th element
Without(q, k) == SubSeq(q, 1, k - 1) \o SubSeq(q, k + 1, Len(q))

\* C14: a send_request call whose write succeeds takes exactly one request out
\* of the unsent queue, one with the least enqueue timestamp, appends exactly
\* the {method, params, id} record of that request to what was written, puts
\* the request into unanswered_requests under its id and returns True; the rest
\* of the queue, the entries under other ids, closed_remotely, last_ping,
\* last_request and request_time are left as they were.
C14_SuccessfulSendMovesOneRequest ==
    [][/\ WriteStep =>
              /\ \E k \in 1..Len(unsent_requests) :
                     /\ send_item' = unsent_requests[k]
                     /\ unsent_requests' = Without(unsent_requests, k)
                     /\ \A j \in 1..Len(unsent_requests) :
                            unsent_requests[k].prio <= unsent_requests[j].prio
              /\ pipe_out' = pipe_out \o
                     <<[dict |-> [method |-> send_item'.request[1],
                                  params |-> send_item'.request[2],
                                  id |-> send_item'.request[3]],
                        n |-> send_item'.n]>>
              /\ UNCHANGED <<session_vars, request_time, send_result>>
       /\ RecordStep =>
              /\ send_result' = "True"
              /\ DOMAIN unanswered_requests' =
                     DOMAIN unanswered_requests \cup {send_item.request[3]}
              /\ unanswered_requests'[send_item.request[3]] = send_item.request
              /\ \A i \in DOMAIN unanswered_requests \ {send_item.request[3]} :
                     unanswered_requests'[i] = unanswered_requests[i]
              /\ UNCHANGED <<unsent_requests, pipe_out, closed_remotely,
                             last_ping, last_request, request_time>>]_vars

\* A second send_request has returned True with the session closed remotely:
\* both requests are in unanswered_requests under their ids, and the queue is
\* empty.
C14_Witness ==
    /\ send_pc = "idle"
    /\ send_result = "True"
    /\ closed_remotely
    /\ unsent_requests = <<>>
    /\ Cardinality(DOMAIN unanswered_requests) = 2
    /\ Len(pipe_out) = 2

\* C15: an id leaves unanswered_requests only in a step of the receive loop
\* that reads an answer carrying that id and appends the pair of the stored
\* request and the answer, and no other id leaves with it; once an answer is
\* matched its id is no longer a key, and an answer whose id is not a key is
\* not matched: it gets (None, None), ends the batch and removes nothing.
C15_EntryLeavesOnceOnItsAnswer ==
    [][/\ \A i \in DOMAIN unanswered_requests \ DOMAIN unanswered_requests' :
              /\ ReadStep
              /\ Read.type = "dict"
              /\ wire_id(Read) = i
              /\ Last(responses') = <<unanswered_requests[i], Read>>
              /\ DOMAIN unanswered_requests' = DOMAIN unanswered_requests \ {i}
       /\ (ReadStep /\ Read.type = "dict" /\ wire_id(Read) # NoneId) =>
              /\ wire_id(Read) \notin DOMAIN unanswered_requests'
              /\ wire_id(Read) \notin DOMAIN unanswered_requests =>
                     /\ Last(responses') = NonePair
                     /\ recv_pc' = "idle"
                     /\ unanswered_requests' = unanswered_requests]_vars

\* One batch holds the pair of a request and its answer and then (None, None)
\* for a second answer with the same id, while another request is still
\* unanswered and the stream has not ended.
C15_Witness ==
    /\ recv_pc = "idle"
    /\ Len(responses) = 2
    /\ responses[1][1] # NoRequest
    /\ responses[2] = NonePair
    /\ response.type = "dict"
    /\ wire_id(response) = wire_id(responses[1][2])
    /\ response # responses[1][2]
    /\ DOMAIN unanswered_requests # {}
    /\ ~closed_remotely

\* The serial number the server gave a message (0 for one that carries none).
Serial(r) ==
    IF "result" \in DOMAIN r THEN r.result
    ELSE IF "params" \in DOMAIN r THEN r.params
    ELSE 0

\* C16: every step of the receive loop reads the next message on the pipe and
\* puts exactly one pair at the end of the batch, leaving the pairs before it
\* as they are: (None, None) for a value that is no dict or carries an unknown
\* id, a pair holding the message read otherwise; no other step changes the
\* batch of a call in progress, and the messages in a batch stand in the order
\* in which the server sent them.
C16_BatchInReadOrder ==
    [][/\ ReadStep =>
              /\ pipe_in' = Tail(pipe_in)
              /\ Len(responses') = Len(responses) + 1
              /\ SubSeq(responses', 1, Len(responses)) = responses
              /\ Last(responses') = NonePair <=>
                     \/ Read.type # "dict"
                     \/ /\ wire_id(Read) # NoneId
                        /\ wire_id(Read) \notin DOMAIN unanswered_requests
              /\ Last(responses') # NonePair => Last(responses')[2] = Read
       /\ (recv_pc = "reading" /\ ~ReadStep) => responses' = responses
       /\ \A j, k \in 1..Len(responses') :
              (/\ j < k
               /\ responses'[j] # NonePair
               /\ responses'[k] # NonePair)
                  => Serial(responses'[j][2]) < Serial(responses'[k][2])]_vars

\* A call in progress has read the first and the second message the server
\* sent, a notification and an answer, and its batch holds their pairs in that
\* order.
C16_Witness ==
    /\ recv_pc = "reading"
    /\ Len(responses) = 2
    /\ responses[1][1] = NoRequest
    /\ responses[1][2].type = "dict"
    /\ Serial(responses[1][2]) = 1
    /\ responses[2][1] # NoRequest
    /\ Serial(responses[2][2]) = 2

\* A step of the receive loop that reads an answer whose id is no key of
\* unanswered_requests.
UnknownIdStep ==
    /\ ReadStep
    /\ Read.type = "dict"
    /\ wire_id(Read) # NoneId
    /\ wire_id(Read) \notin DOMAIN unanswered_requests

\* A get_responses call has been made and has read nothing yet, and the value
\* read last is a dict: the call before it ended on an unknown wire id (a dict
\* ends a call in no other way).
ResumedAfterUnknownId ==
    /\ recv_pc = "reading"
    /\ responses = <<>>
    /\ response.type = "dict"

\* C17: the step that ends a get_responses call on an unknown wire id leaves
\* closed_remotely and unanswered_requests as they were, takes that one message
\* off the pipe and leaves the receive task free for another call; the first
\* read of the call that follows takes the next message on the pipe, and an
\* answer to a request in unanswered_requests is paired with that request and
\* does not end the batch.
C17_UsableAfterUnknownId ==
    [][/\ UnknownIdStep =>
              /\ closed_remotely' = closed_remotely
              /\ unanswered_requests' = unanswered_requests
              /\ pipe_in' = Tail(pipe_in)
              /\ recv_pc' = "idle"
       /\ (ResumedAfterUnknownId /\ ReadStep) =>
              /\ response' = Head(pipe_in)
              /\ pipe_in' = Tail(pipe_in)
              /\ (/\ Read.type = "dict"
                  /\ wire_id(Read) \in DOMAIN unanswered_requests) =>
                     /\ responses' =
                            <<<<unanswered_requests[wire_id(Read)], Read>>>>
                     /\ recv_pc' = "reading"]_vars

\* A call has ended on an unknown wire id with the session not closed remotely,
\* the next call has been made, and the next message on the pipe answers a
\* request that is in unanswered_requests.
C17_Witness ==
    /\ ResumedAfterUnknownId
    /\ ~closed_remotely
    /\ pipe_in # <<>>
    /\ Head(pipe_in).type = "dict"
    /\ wire_id(Head(pipe_in)) \in DOMAIN unanswered_requests

\* C18: when every send_request call is made with closed_remotely set
\* (SpecClosedRemotely), none of them returns True and none adds an entry to
\* unanswered_requests.
C18_NoSendSucceedsOnceClosed ==
    /\ send_result # "True"
    /\ DOMAIN unanswered_requests = {}

\* The ids of the requests in the unsent queue.
UnsentIds ==
    {unsent_requests[j].request[3] : j \in 1..Len(unsent_requests)}

\* The number of requests a send_request call holds between taking them from
\* the queue and recording them.
InFlight == IF send_pc = "send_all" THEN 1 ELSE 0

\* C19: with ids unique among outstanding requests and writes that succeed
\* (SpecNoLoss), the requests in the unsent queue and those in
\* unanswered_requests are distinct requests, and the number of requests ever
\* queued is the number in the unsent queue plus the number in
\* unanswered_requests plus the number returned paired with an answer, plus the
\* one a send_request call suspended in its write holds; when no such call is
\* suspended, every request queued is in exactly one of the three places.
C19_EveryRequestInOnePlace ==
    /\ Cardinality(UnsentIds) = Len(unsent_requests)
    /\ UnsentIds \cap DOMAIN unanswered_requests = {}
    /\ \A i \in DOMAIN unanswered_requests : unanswered_requests[i][3] = i
    /\ queued = Len(unsent_requests) + InFlight
                    + Cardinality(DOMAIN unanswered_requests) + answered
    /\ send_pc = "idle" =>
           queued = Len(unsent_requests)
                        + Cardinality(DOMAIN unanswered_requests) + answered

\* Of two requests queued, one has been returned paired with its answer and the
\* other is in unanswered_requests, with no send_request call in progress.
C19_Witness ==
    /\ send_pc = "idle"
    /\ queued = 2
    /\ answered = 1
    /\ unsent_requests = <<>>
    /\ Cardinality(DOMAIN unanswered_requests) = 1

\* The step in which a get_responses call returns its batch.
ReturnStep == recv_pc = "reading" /\ recv_pc' = "idle"

\* C20: a get_responses call returns in the step that reads a value that is no
\* dict or an answer with an unknown id, and in no other; the batch it returns
\* is not empty, its last pair is (None, None) and no pair before the last is;
\* the batch of a call in progress holds no (None, None).
C20_BatchEndsWithTheOnlyNonePair ==
    [][/\ ReturnStep =>
              /\ ReadStep
              /\ \/ Read.type # "dict"
                 \/ /\ wire_id(Read) # NoneId
                    /\ wire_id(Read) \notin DOMAIN unanswered_requests
              /\ responses' # <<>>
              /\ Last(responses') = NonePair
              /\ \A j \in 1..(Len(responses') - 1) : responses'[j] # NonePair
       /\ recv_pc' = "reading" =>
              \A j \in 1..Len(responses') : responses'[j] # NonePair]_vars

\* A batch has been returned that holds a notification and then (None, None)
\* for the end of the stream.
C20_Witness ==
    /\ recv_pc = "idle"
    /\ Len(responses) = 2
    /\ responses[1][1] = NoRequest
    /\ responses[1][2].type = "dict"
    /\ responses[2] = NonePair
    /\ response = None
====
